---- MODULE Spec2Model ----
(***************************************************************************)
(* xmldoc: the tree builder of XmlDocument / XmlElement (xmldoc.ts).       *)
(*                                                                         *)
(* Strings are sequences of one-character strings, so that trimming and    *)
(* concatenation are computed character by character.  Objects live in a   *)
(* heap (a sequence of records); an object reference is its index in the   *)
(* heap and Null is the null reference.  The sax parser is the external    *)
(* event source: it delivers events in any order, except that it closes   *)
(* only tags it has opened.                                                *)
(***************************************************************************)
EXTENDS Integers, Sequences, FiniteSets, TLC

VARIABLES
    heap,       \* every object constructed so far (XmlElement, XmlDocument, text, cdata, comment nodes)
    delegates,  \* the module-level "delegates" array; delegates[0] is Head(delegates)
    lexer,      \* the sax parser: how many were created, what was written, its position counters
    phase,      \* "idle" | "feeding" (inside parser.write) | "done" (constructor left)
    doc,        \* the XmlDocument under construction (this), Null before the first build
    xml,        \* the argument of the running / last constructor call
    outcome,    \* "none" | "returned" | "raised": how the last constructor call ended
    err,        \* which error the last constructor call raised ("" if none)
    ev,         \* the last event the parser delivered in this build
    nOpen,      \* open-tag events delivered in this build
    nEvents,    \* events delivered over all builds
    nBuilds     \* constructor calls so far

vars == <<heap, delegates, lexer, phase, doc, xml, outcome, err, ev, nOpen, nEvents, nBuilds>>

-----------------------------------------------------------------------------
\* Bounds

MaxEvents == 4
MaxBuilds == 2

-----------------------------------------------------------------------------
\* Values

Null == 0
NullPos == -1
NoParser == {}

Whitespace == {" ", "\n", "\t"}

\* constructor arguments
Inputs == { <<>>, <<" ">>, <<"\n", " ">>, <<" ", "a", "\t">> }

\* tags delivered by onopentag: name and attributes (attributes in insertion order)
Tags == { [name |-> <<"a">>, attributes |-> <<>>],
          [name |-> <<"b">>, attributes |-> << [k |-> <<"t">>, v |-> <<"v">>] >>],
          [name |-> <<"a">>, attributes |-> << [k |-> <<"t">>, v |-> <<>>] >>] }

Texts    == { <<"x">> }
CDatas   == { <<"y">> }
Comments == { <<"c">> }
Doctypes == { <<"d">> }

NoEvent == [kind |-> "none", arg |-> <<>>]

-----------------------------------------------------------------------------
\* String.prototype.trim

RECURSIVE TrimStart(_)
TrimStart(s) ==
    IF s # <<>> /\ Head(s) \in Whitespace THEN TrimStart(Tail(s)) ELSE s

RECURSIVE TrimEnd(_)
TrimEnd(s) ==
    IF s # <<>> /\ s[Len(s)] \in Whitespace THEN TrimEnd(SubSeq(s, 1, Len(s) - 1)) ELSE s

NoTrim(s) == s

Trim(s) == TrimEnd(TrimStart(s))

-----------------------------------------------------------------------------
\* Node constructors

BlankNode ==
    [ type |-> "element", isDocument |-> FALSE,
      name |-> <<>>, attr |-> <<>>, val |-> <<>>,
      children |-> <<>>, firstChild |-> Null, lastChild |-> Null,
      line |-> NullPos, column |-> NullPos, position |-> NullPos, startTagPosition |-> NullPos,
      content |-> <<>>, doctype |-> <<>>, parser |-> Null ]

XmlTextNode(text) == [BlankNode EXCEPT !.type = "text", !.content = text]

XmlCDataNode(cdata) == [BlankNode EXCEPT !.type = "cdata", !.content = cdata]

XmlCommentNode(comment) == [BlankNode EXCEPT !.type = "comment", !.content = comment]

\* new XmlElement(tag, parser); parser is NoParser when the argument is omitted
XmlElement(tag, parser) ==
    LET p == CHOOSE q \in parser : TRUE IN
    [BlankNode EXCEPT
        !.name = tag.name,
        !.attr = tag.attributes,
        !.val = <<>>,
        !.children = <<>>,
        !.firstChild = Null,
        !.lastChild = Null,
        !.line = IF parser # NoParser THEN p.line ELSE NullPos,
        !.column = IF parser # NoParser THEN p.column ELSE NullPos,
        !.position = IF parser # NoParser THEN p.position ELSE NullPos,
        !.startTagPosition = IF parser # NoParser THEN p.startTagPosition ELSE NullPos]

-----------------------------------------------------------------------------
\* Handlers.  Each takes the heap, the delegates array and the receiver and
\* returns [heap, delegates, thrown]; thrown is "" when the handler returns.

Ret(h, d) == [heap |-> h, delegates |-> d, thrown |-> ""]

Throw(h, d, e) == [heap |-> h, delegates |-> d, thrown |-> e]

\* allocate a node on the heap: its reference is Len(h) + 1
New(h, node) == Append(h, node)

AddChildAlwaysFirst(h, self, child) ==
    [h EXCEPT ![self].children = Append(@, child),
              ![self].firstChild = child,
              ![self].lastChild = child]

\* XmlElement._addChild
AddChild(h, self, child) ==
    [h EXCEPT ![self].children = Append(@, child),
              ![self].firstChild = IF @ = Null THEN child ELSE @,
              ![self].lastChild = child]

XmlElement_opentag_push(h, d, self, tag) ==
    LET h1 == New(h, XmlElement(tag, NoParser))
        child == Len(h1)
    IN Ret(AddChild(h1, self, child), d \o <<child>>)

\* XmlElement._opentag
XmlElement_opentag(h, d, self, tag) ==
    LET h1 == New(h, XmlElement(tag, NoParser))
        child == Len(h1)
    IN Ret(AddChild(h1, self, child), <<child>> \o d)

\* XmlElement._closetag
XmlElement_closetag_keepdoc(h, d, self) ==
    IF h[self].isDocument THEN Ret(h, d) ELSE Ret(h, Tail(d))

XmlElement_closetag(h, d, self) == Ret(h, Tail(d))

XmlElement_text_noval(h, d, self, text) ==
    LET h1 == New(h, XmlTextNode(text))
    IN Ret(AddChild(h1, self, Len(h1)), d)

\* XmlElement._text
XmlElement_text(h, d, self, text) ==
    LET h1 == New([h EXCEPT ![self].val = @ \o text], XmlTextNode(text))
    IN Ret(AddChild(h1, self, Len(h1)), d)

\* XmlElement._cdata
XmlElement_cdata(h, d, self, cdata) ==
    LET h1 == New([h EXCEPT ![self].val = @ \o cdata], XmlCDataNode(cdata))
    IN Ret(AddChild(h1, self, Len(h1)), d)

XmlElement_comment_val(h, d, self, comment) ==
    LET h1 == New([h EXCEPT ![self].val = @ \o comment], XmlCommentNode(comment))
    IN Ret(AddChild(h1, self, Len(h1)), d)

\* XmlElement._comment
XmlElement_comment(h, d, self, comment) ==
    LET h1 == New(h, XmlCommentNode(comment))
    IN Ret(AddChild(h1, self, Len(h1)), d)

\* XmlElement._error
XmlElement_error(h, d, self) == Throw(h, d, "SaxError")

\* XmlDocument._opentag
XmlDocument_opentag(h, d, self, tag) ==
    IF h[self].name = <<>>
    THEN Ret([h EXCEPT ![self].name = tag.name, ![self].attr = tag.attributes], d)
    ELSE XmlElement_opentag(h, d, self, tag)

\* XmlDocument._doctype
XmlDocument_doctype(h, d, self, doctype) ==
    Ret([h EXCEPT ![self].doctype = @ \o doctype], d)

-----------------------------------------------------------------------------
\* addParserEvents: the callbacks the parser calls, dispatching on delegates[0]

onopentag(h, d, tag) ==
    IF d = <<>> THEN Ret(h, d)
    ELSE IF h[Head(d)].isDocument THEN XmlDocument_opentag(h, d, Head(d), tag)
    ELSE XmlElement_opentag(h, d, Head(d), tag)

onclosetag(h, d) ==
    IF d = <<>> THEN Ret(h, d) ELSE XmlElement_closetag(h, d, Head(d))

ontext(h, d, text) ==
    IF d = <<>> THEN Ret(h, d) ELSE XmlElement_text(h, d, Head(d), text)

oncdata(h, d, cdata) ==
    IF d = <<>> THEN Ret(h, d) ELSE XmlElement_cdata(h, d, Head(d), cdata)

oncomment(h, d, comment) ==
    IF d = <<>> THEN Ret(h, d) ELSE XmlElement_comment(h, d, Head(d), comment)

\* doc = delegates[0]; doc._doctype is read without a guard on doc
ondoctype(h, d, doctype) ==
    IF d = <<>> THEN Throw(h, d, "TypeError")
    ELSE IF h[Head(d)].isDocument THEN XmlDocument_doctype(h, d, Head(d), doctype)
    ELSE Ret(h, d)

onerror(h, d) ==
    IF d = <<>> THEN Ret(h, d) ELSE XmlElement_error(h, d, Head(d))

-----------------------------------------------------------------------------
\* The parser (sax, strict): its counters move with every event it delivers;
\* depth is the number of tags it has open, and it closes only a tag it opened

NewLexer(old, text) ==
    [created |-> old.created + 1, written |-> text, depth |-> 0,
     line |-> 0, column |-> 0, position |-> 0, startTagPosition |-> 0]

Advance(lx, kind) ==
    [lx EXCEPT !.position = @ + 1,
               !.column = @ + 1,
               !.startTagPosition = IF kind = "opentag" THEN lx.position ELSE @,
               !.depth = IF kind = "opentag" THEN @ + 1
                         ELSE IF kind = "closetag" THEN @ - 1 ELSE @]

-----------------------------------------------------------------------------
\* The constructor of XmlDocument

KeepParser(h, self) == h

\* finally { delete this.parser }
DeleteParser(h, self) == [h EXCEPT ![self].parser = Null]

Init ==
    /\ heap = <<>>
    /\ delegates = <<>>
    /\ lexer = [created |-> 0, written |-> <<>>, depth |-> 0,
                line |-> 0, column |-> 0, position |-> 0, startTagPosition |-> 0]
    /\ phase = "idle"
    /\ doc = Null
    /\ xml = <<>>
    /\ outcome = "none"
    /\ err = ""
    /\ ev = NoEvent
    /\ nOpen = 0
    /\ nEvents = 0
    /\ nBuilds = 0

RegisterPush(d, this) == Append(d, this)

\* delegates = [this]
Register(d, this) == <<this>>

\* new XmlDocument(input), up to the call of parser.write
Construct(input) ==
    /\ phase # "feeding"
    /\ nBuilds < MaxBuilds
    /\ nBuilds' = nBuilds + 1
    /\ xml' = input
    /\ ev' = NoEvent
    /\ nOpen' = 0
    /\ UNCHANGED nEvents
    /\ LET h1 == New(heap, [XmlElement([name |-> <<>>, attributes |-> <<>>], NoParser)
                                EXCEPT !.isDocument = TRUE])
           this == Len(h1)
           text == Trim(input)
       IN /\ doc' = this
          /\ IF text = <<>>
             THEN /\ heap' = h1
                  /\ phase' = "done"
                  /\ outcome' = "raised"
                  /\ err' = "No XML to parse!"
                  /\ UNCHANGED <<delegates, lexer>>
             ELSE /\ lexer' = NewLexer(lexer, text)
                  /\ heap' = [h1 EXCEPT ![this].doctype = <<>>,
                                        ![this].parser = lexer'.created]
                  /\ delegates' = Register(delegates, this)
                  /\ phase' = "feeding"
                  /\ outcome' = "none"
                  /\ err' = ""

\* one callback made by parser.write; a throw leaves the constructor through finally
Deliver(e, r) ==
    /\ ev' = e
    /\ nEvents' = nEvents + 1
    /\ nOpen' = IF e.kind = "opentag" THEN nOpen + 1 ELSE nOpen
    /\ lexer' = Advance(lexer, e.kind)
    /\ delegates' = r.delegates
    /\ UNCHANGED <<doc, xml, nBuilds>>
    /\ IF r.thrown = ""
       THEN /\ heap' = r.heap
            /\ UNCHANGED <<phase, outcome, err>>
       ELSE /\ heap' = DeleteParser(r.heap, doc)
            /\ phase' = "done"
            /\ outcome' = "raised"
            /\ err' = r.thrown

CanDeliver == phase = "feeding" /\ nEvents < MaxEvents

OnOpenTag(tag) ==
    /\ CanDeliver
    /\ Deliver([kind |-> "opentag", arg |-> tag], onopentag(heap, delegates, tag))

OnCloseTag ==
    /\ CanDeliver
    /\ lexer.depth > 0
    /\ Deliver([kind |-> "closetag", arg |-> <<>>], onclosetag(heap, delegates))

OnText(text) ==
    /\ CanDeliver
    /\ Deliver([kind |-> "text", arg |-> text], ontext(heap, delegates, text))

OnCData(cdata) ==
    /\ CanDeliver
    /\ Deliver([kind |-> "cdata", arg |-> cdata], oncdata(heap, delegates, cdata))

OnComment(comment) ==
    /\ CanDeliver
    /\ Deliver([kind |-> "comment", arg |-> comment], oncomment(heap, delegates, comment))

OnDoctype(doctype) ==
    /\ CanDeliver
    /\ Deliver([kind |-> "doctype", arg |-> doctype], ondoctype(heap, delegates, doctype))

OnError ==
    /\ CanDeliver
    /\ Deliver([kind |-> "error", arg |-> <<>>], onerror(heap, delegates))

\* parser.write returns: finally, then the constructor returns this
WriteReturns ==
    /\ phase = "feeding"
    /\ heap' = DeleteParser(heap, doc)
    /\ phase' = "done"
    /\ outcome' = "returned"
    /\ ev' = [kind |-> "end", arg |-> <<>>]
    /\ UNCHANGED <<delegates, lexer, doc, xml, err, nOpen, nEvents, nBuilds>>

Next ==
    \/ \E input \in Inputs : Construct(input)
    \/ \E tag \in Tags : OnOpenTag(tag)
    \/ OnCloseTag
    \/ \E text \in Texts : OnText(text)
    \/ \E cdata \in CDatas : OnCData(cdata)
    \/ \E comment \in Comments : OnComment(comment)
    \/ \E doctype \in Doctypes : OnDoctype(doctype)
    \/ OnError
    \/ WriteReturns

Spec == Init /\ [][Next]_vars

-----------------------------------------------------------------------------
\* The query methods of XmlElement.  An array index is the JavaScript index
\* (from 0); an omitted or undefined string is the empty set, a defined one
\* the set holding it.

Undefined == -2
Absent == {}
Some(v) == {v}

\* attr[name]
AttrGet(attr, name) == { attr[i].v : i \in { j \in 1..Len(attr) : attr[j].k = name } }

RECURSIVE eachChildNoStop(_, _, _, _)
eachChildNoStop(h, self, i, stops) ==
    IF i >= Len(h[self].children) THEN <<>>
    ELSE LET child == h[self].children[i + 1] IN
         IF h[child].type = "element"
         THEN <<[child |-> child, index |-> i, array |-> h[self].children]>>
              \o eachChildNoStop(h, self, i + 1, stops)
         ELSE eachChildNoStop(h, self, i + 1, stops)

RECURSIVE eachChildFrom(_, _, _, _)
\* the loop of eachChild from index i: the calls of the iterator it makes, the
\* iterator returning false exactly on the children in stops
eachChildFrom(h, self, i, stops) ==
    IF i >= Len(h[self].children) THEN <<>>
    ELSE LET child == h[self].children[i + 1] IN
         IF h[child].type = "element"
         THEN <<[child |-> child, index |-> i, array |-> h[self].children]>>
              \o (IF child \in stops THEN <<>> ELSE eachChildFrom(h, self, i + 1, stops))
         ELSE eachChildFrom(h, self, i + 1, stops)

eachChild(h, self, stops) == eachChildFrom(h, self, 0, stops)

RECURSIVE childNamedFrom(_, _, _, _)
childNamedFrom(h, self, i, name) ==
    IF i >= Len(h[self].children) THEN Undefined
    ELSE LET child == h[self].children[i + 1] IN
         IF h[child].type = "element" /\ h[child].name = name THEN child
         ELSE childNamedFrom(h, self, i + 1, name)

childNamedLast(h, self, name) ==
    LET hits == { i \in 1..Len(h[self].children) :
                    /\ h[h[self].children[i]].type = "element"
                    /\ h[h[self].children[i]].name = name }
    IN IF hits = {} THEN Undefined
       ELSE h[self].children[CHOOSE i \in hits : \A j \in hits : j <= i]

childNamed(h, self, name) == childNamedFrom(h, self, 0, name)

RECURSIVE childrenNamedReversed(_, _, _, _)
childrenNamedReversed(h, self, i, name) ==
    IF i >= Len(h[self].children) THEN <<>>
    ELSE LET child == h[self].children[i + 1] IN
         childrenNamedReversed(h, self, i + 1, name)
         \o (IF h[child].type = "element" /\ h[child].name = name THEN <<child>> ELSE <<>>)

RECURSIVE childrenNamedFrom(_, _, _, _)
childrenNamedFrom(h, self, i, name) ==
    IF i >= Len(h[self].children) THEN <<>>
    ELSE LET child == h[self].children[i + 1] IN
         (IF h[child].type = "element" /\ h[child].name = name THEN <<child>> ELSE <<>>)
         \o childrenNamedFrom(h, self, i + 1, name)

childrenNamed(h, self, name) == childrenNamedFrom(h, self, 0, name)

\* the truthiness of attr[name]: undefined and "" are falsy
Truthy(v) == v # Absent /\ v # Some(<<>>)

RECURSIVE childWithAttributeFrom(_, _, _, _, _)
childWithAttributeFrom(h, self, i, name, value) ==
    IF i >= Len(h[self].children) THEN Undefined
    ELSE LET child == h[self].children[i + 1] IN
         IF /\ h[child].type = "element"
            /\ \/ (value # Absent /\ AttrGet(h[child].attr, name) = value)
               \/ (value = Absent /\ Truthy(AttrGet(h[child].attr, name)))
         THEN child
         ELSE childWithAttributeFrom(h, self, i + 1, name, value)

childWithAttribute(h, self, name, value) == childWithAttributeFrom(h, self, 0, name, value)

RECURSIVE descendantsNamedSkipMatched(_, _, _, _)
descendantsNamedSkipMatched(h, self, i, name) ==
    IF i >= Len(h[self].children) THEN <<>>
    ELSE LET child == h[self].children[i + 1] IN
         (IF h[child].type = "element"
          THEN (IF h[child].name = name THEN <<child>>
                ELSE descendantsNamedSkipMatched(h, child, 0, name))
          ELSE <<>>)
         \o descendantsNamedSkipMatched(h, self, i + 1, name)

RECURSIVE descendantsNamedFrom(_, _, _, _)
descendantsNamedFrom(h, self, i, name) ==
    IF i >= Len(h[self].children) THEN <<>>
    ELSE LET child == h[self].children[i + 1] IN
         (IF h[child].type = "element"
          THEN (IF h[child].name = name THEN <<child>> ELSE <<>>)
               \o descendantsNamedFrom(h, child, 0, name)
          ELSE <<>>)
         \o descendantsNamedFrom(h, self, i + 1, name)

descendantsNamed(h, self, name) == descendantsNamedFrom(h, self, 0, name)

RECURSIVE SplitFrom(_, _, _)
\* the pieces of s between occurrences of sep, cur being the piece under way
SplitFrom(s, sep, cur) ==
    IF s = <<>> THEN <<cur>>
    ELSE IF Head(s) = sep THEN <<cur>> \o SplitFrom(Tail(s), sep, <<>>)
    ELSE SplitFrom(Tail(s), sep, Append(cur, Head(s)))

\* String.prototype.split with a one-character separator
Split(s, sep) == SplitFrom(s, sep, <<>>)

RECURSIVE descendantWithPathFrom(_, _, _, _)
descendantWithPathFrom(h, descendant, components, i) ==
    IF i >= Len(components) THEN descendant
    ELSE IF descendant # Undefined /\ h[descendant].type = "element"
    THEN descendantWithPathFrom(h, childNamed(h, descendant, components[i + 1]), components, i + 1)
    ELSE Undefined

descendantWithPathShort(h, self, path) ==
    LET components == Split(path, ".")
    IN descendantWithPathFrom(h, self, SubSeq(components, 1, Len(components) - 1), 0)

descendantWithPath(h, self, path) == descendantWithPathFrom(h, self, Split(path, "."), 0)

valueWithPathNoAttr(h, self, path) ==
    LET components == Split(path, "@")
        descendant == descendantWithPath(h, self, components[1])
    IN IF descendant # Undefined THEN Some(h[descendant].val) ELSE Absent

valueWithPath(h, self, path) ==
    LET components == Split(path, "@")
        descendant == descendantWithPath(h, self, components[1])
    IN IF descendant # Undefined
       THEN (IF Len(components) > 1
             THEN AttrGet(h[descendant].attr, components[2])
             ELSE Some(h[descendant].val))
       ELSE Absent

-----------------------------------------------------------------------------
\* Trees for the query methods: one build over a small alphabet of events

MaxTreeEvents == 5

TreeTags == Tags

TreeCanDeliver == phase = "feeding" /\ nEvents < MaxTreeEvents

TreeConstruct ==
    /\ nBuilds = 0
    /\ Construct(<<" ", "a", "\t">>)

TreeOpenTag(tag) ==
    /\ TreeCanDeliver
    /\ Deliver([kind |-> "opentag", arg |-> tag], onopentag(heap, delegates, tag))

TreeCloseTag ==
    /\ TreeCanDeliver
    /\ lexer.depth > 0
    /\ Deliver([kind |-> "closetag", arg |-> <<>>], onclosetag(heap, delegates))

TreeText(text) ==
    /\ TreeCanDeliver
    /\ Deliver([kind |-> "text", arg |-> text], ontext(heap, delegates, text))

TreeCData(cdata) ==
    /\ TreeCanDeliver
    /\ Deliver([kind |-> "cdata", arg |-> cdata], oncdata(heap, delegates, cdata))

TreeComment(comment) ==
    /\ TreeCanDeliver
    /\ Deliver([kind |-> "comment", arg |-> comment], oncomment(heap, delegates, comment))

TreeNext ==
    \/ TreeConstruct
    \/ \E tag \in TreeTags : TreeOpenTag(tag)
    \/ TreeCloseTag
    \/ \E text \in Texts : TreeText(text)
    \/ \E cdata \in CDatas : TreeCData(cdata)
    \/ \E comment \in Comments : TreeComment(comment)
    \/ WriteReturns

SpecTree == Init /\ [][TreeNext]_vars

-----------------------------------------------------------------------------
\* Trees for the path methods: one build over open-tag, close-tag and text events

MaxPathEvents == 4

PathCanDeliver == phase = "feeding" /\ nEvents < MaxPathEvents

PathOpenTag(tag) ==
    /\ PathCanDeliver
    /\ Deliver([kind |-> "opentag", arg |-> tag], onopentag(heap, delegates, tag))

PathCloseTag ==
    /\ PathCanDeliver
    /\ lexer.depth > 0
    /\ Deliver([kind |-> "closetag", arg |-> <<>>], onclosetag(heap, delegates))

PathText(text) ==
    /\ PathCanDeliver
    /\ Deliver([kind |-> "text", arg |-> text], ontext(heap, delegates, text))

PathNext ==
    \/ TreeConstruct
    \/ \E tag \in TreeTags : PathOpenTag(tag)
    \/ PathCloseTag
    \/ \E text \in Texts : PathText(text)
    \/ WriteReturns

SpecPath == Init /\ [][PathNext]_vars

-----------------------------------------------------------------------------
\* The serializer: escapeXML, formatText and the toString / toStringWithIndent
\* methods.  options is [compressed, trimmed, preserveWhitespace, html], each
\* FALSE when the option is unset.

TrimLength == 25

\* the one character U+2026
Ellipsis == <<"...">>

RECURSIVE Replace(_, _, _)
\* String.prototype.replace with a global one-character pattern
Replace(s, ch, by) ==
    IF s = <<>> THEN <<>>
    ELSE (IF Head(s) = ch THEN by ELSE <<Head(s)>>) \o Replace(Tail(s), ch, by)

escapeXMLAmpLast(value) ==
    Replace(Replace(Replace(Replace(Replace(value,
        "<", <<"&", "l", "t", ";">>),
        ">", <<"&", "g", "t", ";">>),
        "'", <<"&", "a", "p", "o", "s", ";">>),
        "\"", <<"&", "q", "u", "o", "t", ";">>),
        "&", <<"&", "a", "m", "p", ";">>)

escapeXML(value) ==
    Replace(Replace(Replace(Replace(Replace(value,
        "&", <<"&", "a", "m", "p", ";">>),
        "<", <<"&", "l", "t", ";">>),
        ">", <<"&", "g", "t", ";">>),
        "'", <<"&", "a", "p", "o", "s", ";">>),
        "\"", <<"&", "q", "u", "o", "t", ";">>)

formatText(text, options) ==
    LET finalText == IF options.trimmed /\ Len(text) > TrimLength
                     THEN Trim(SubSeq(text, 1, TrimLength)) \o Ellipsis
                     ELSE text
    IN IF ~options.preserveWhitespace THEN Trim(finalText) ELSE finalText

whiteList ==
    << <<"a", "r", "e", "a">>, <<"b", "a", "s", "e">>, <<"b", "r">>, <<"c", "o", "l">>,
       <<"e", "m", "b", "e", "d">>, <<"f", "r", "a", "m", "e">>, <<"h", "r">>,
       <<"i", "m", "g">>, <<"i", "n", "p", "u", "t">>, <<"k", "e", "y", "g", "e", "n">>,
       <<"l", "i", "n", "k">>, <<"m", "e", "n", "u", "i", "t", "e", "m">>,
       <<"m", "e", "t", "a">>, <<"p", "a", "r", "a", "m">>,
       <<"s", "o", "u", "r", "c", "e">>, <<"t", "r", "a", "c", "k">>, <<"w", "b", "r">> >>

\* Array.prototype.includes
Includes(list, x) == \E i \in 1..Len(list) : list[i] = x

RECURSIVE AttrTextRaw(_)
AttrTextRaw(attr) ==
    IF attr = <<>> THEN <<>>
    ELSE <<" ">> \o Head(attr).k \o <<"=", "\"">> \o Head(attr).v \o <<"\"">>
         \o AttrTextRaw(Tail(attr))

RECURSIVE AttrText(_)
\* the loop over this.attr: ` name="escaped value"` for each attribute
AttrText(attr) ==
    IF attr = <<>> THEN <<>>
    ELSE <<" ">> \o Head(attr).k \o <<"=", "\"">> \o escapeXML(Head(attr).v) \o <<"\"">>
         \o AttrText(Tail(attr))

\* the tail of an element without children
EmptyTailNoHtml(name, options) == <<"/", ">">>

EmptyTail(name, options) ==
    IF options.html
    THEN (IF Includes(whiteList, name) THEN <<"/", ">">>
          ELSE <<">", "<", "/">> \o name \o <<">">>)
    ELSE <<"/", ">">>

RECURSIVE toStringWithIndent(_, _, _, _)
RECURSIVE ChildrenText(_, _, _, _, _)

\* toString of any node
toString(h, n, options) ==
    IF h[n].type = "text" THEN formatText(escapeXML(h[n].content), options)
    ELSE IF h[n].type = "cdata"
    THEN <<"<", "!", "[", "C", "D", "A", "T", "A", "[">>
         \o formatText(h[n].content, options) \o <<"]", "]", ">">>
    ELSE IF h[n].type = "comment"
    THEN <<"<", "!", "-", "-">> \o formatText(escapeXML(h[n].content), options)
         \o <<"-", "-", ">">>
    ELSE toStringWithIndent(h, n, <<>>, options)

RECURSIVE ChildrenTextSameIndent(_, _, _, _, _)
ChildrenTextSameIndent(h, self, i, childIndent, options) ==
    IF i >= Len(h[self].children) THEN <<>>
    ELSE toStringWithIndent(h, h[self].children[i + 1],
                            SubSeq(childIndent, 1, Len(childIndent) - 2), options)
         \o (IF options.compressed THEN <<>> ELSE <<"\n">>)
         \o ChildrenTextSameIndent(h, self, i + 1, childIndent, options)

\* the loop over children from index i, each with childIndent and a linebreak
ChildrenText(h, self, i, childIndent, options) ==
    IF i >= Len(h[self].children) THEN <<>>
    ELSE toStringWithIndent(h, h[self].children[i + 1], childIndent, options)
         \o (IF options.compressed THEN <<>> ELSE <<"\n">>)
         \o ChildrenText(h, self, i + 1, childIndent, options)

\* toStringWithIndent of any node
toStringWithIndent(h, n, indent, options) ==
    IF h[n].type # "element" THEN indent \o toString(h, n, options)
    ELSE
    LET s == indent \o <<"<">> \o h[n].name \o AttrText(h[n].attr)
        linebreak == IF options.compressed THEN <<>> ELSE <<"\n">>
        kids == h[n].children
    IN IF Len(kids) = 1 /\ h[kids[1]].type # "element"
       THEN s \o <<">">> \o toString(h, kids[1], options) \o <<"<", "/">> \o h[n].name \o <<">">>
       ELSE IF Len(kids) # 0
       THEN s \o <<">">> \o linebreak
            \o ChildrenText(h, n, 0, indent \o (IF options.compressed THEN <<>> ELSE <<" ", " ">>), options)
            \o indent \o <<"<", "/">> \o h[n].name \o <<">">>
       ELSE s \o EmptyTail(h[n].name, options)

-----------------------------------------------------------------------------
\* The parser (sax, strict) as a function of the text written to it: the
\* events parser.write delivers for a text that is one root element with
\* balanced tags, quoted attribute values and the five predefined entities.

CommentOpen == <<"<", "!", "-", "-">>
CommentClose == <<"-", "-", ">">>
CDataOpen == <<"<", "!", "[", "C", "D", "A", "T", "A", "[">>
CDataClose == <<"]", "]", ">">>

\* s has pat at position i
At(s, i, pat) == i + Len(pat) - 1 <= Len(s) /\ SubSeq(s, i, i + Len(pat) - 1) = pat

\* the first position from i on where s has pat, 0 when there is none
Find(s, pat, i) ==
    LET hits == { j \in i..Len(s) : At(s, j, pat) }
    IN IF hits = {} THEN 0 ELSE CHOOSE j \in hits : \A k \in hits : j <= k

\* the character an entity name stands for, <<>> for a name that is not predefined
Entity(name) ==
    IF name = <<"a", "m", "p">> THEN <<"&">>
    ELSE IF name = <<"l", "t">> THEN <<"<">>
    ELSE IF name = <<"g", "t">> THEN <<">">>
    ELSE IF name = <<"a", "p", "o", "s">> THEN <<"'">>
    ELSE IF name = <<"q", "u", "o", "t">> THEN <<"\"">>
    ELSE <<>>

RECURSIVE Decode(_)
\* character data or an attribute value with its entities replaced
Decode(s) ==
    IF s = <<>> THEN <<>>
    ELSE IF Head(s) = "&" /\ Find(s, <<";">>, 2) # 0
              /\ Entity(SubSeq(s, 2, Find(s, <<";">>, 2) - 1)) # <<>>
    THEN Entity(SubSeq(s, 2, Find(s, <<";">>, 2) - 1))
         \o Decode(SubSeq(s, Find(s, <<";">>, 2) + 1, Len(s)))
    ELSE <<Head(s)>> \o Decode(Tail(s))

RECURSIVE SkipWhitespace(_, _)
SkipWhitespace(s, i) ==
    IF i <= Len(s) /\ s[i] \in Whitespace THEN SkipWhitespace(s, i + 1) ELSE i

RECURSIVE NameEnd(_, _)
\* the position after the name that starts at i
NameEnd(s, i) ==
    IF i <= Len(s) /\ s[i] \notin Whitespace \cup {"/", ">", "="} THEN NameEnd(s, i + 1) ELSE i

RECURSIVE LexAttributes(_, _, _)
\* the attributes of the start tag from position i on: [attributes, next,
\* selfClosing], next = 0 when the tag is not complete
LexAttributes(s, i, acc) ==
    LET j == SkipWhitespace(s, i)
    IN IF j > Len(s) THEN [attributes |-> acc, next |-> 0, selfClosing |-> FALSE]
       ELSE IF s[j] = ">" THEN [attributes |-> acc, next |-> j + 1, selfClosing |-> FALSE]
       ELSE IF At(s, j, <<"/", ">">>) THEN [attributes |-> acc, next |-> j + 2, selfClosing |-> TRUE]
       ELSE LET e == NameEnd(s, j)
                q == IF e + 1 <= Len(s) THEN Find(s, <<s[e + 1]>>, e + 2) ELSE 0
            IN IF e > Len(s) \/ s[e] # "=" \/ q = 0
                  \/ (e + 1 <= Len(s) /\ s[e + 1] \notin {"\"", "'"})
               THEN [attributes |-> acc, next |-> 0, selfClosing |-> FALSE]
               ELSE LexAttributes(s, q + 1,
                        Append(acc, [k |-> SubSeq(s, j, e - 1),
                                     v |-> Decode(SubSeq(s, e + 2, q - 1))]))

\* the text event the parser delivers before any other event when it holds text
CloseText(text) ==
    IF text = <<>> THEN <<>> ELSE << [kind |-> "text", arg |-> Decode(text)] >>

RECURSIVE LexFrom(_, _, _)
\* the events for s from position i on, text being the raw character data
\* read since the last event; what is incomplete at the end stays unreported
LexFrom(s, i, text) ==
    IF i > Len(s) THEN <<>>
    ELSE IF At(s, i, CommentOpen)
    THEN LET j == Find(s, CommentClose, i + 4)
         IN IF j = 0 THEN <<>>
            ELSE CloseText(text)
                 \o << [kind |-> "comment", arg |-> SubSeq(s, i + 4, j - 1)] >>
                 \o LexFrom(s, j + 3, <<>>)
    ELSE IF At(s, i, CDataOpen)
    THEN LET j == Find(s, CDataClose, i + 9)
         IN IF j = 0 THEN <<>>
            ELSE CloseText(text)
                 \o (IF j = i + 9 THEN <<>>
                     ELSE << [kind |-> "cdata", arg |-> SubSeq(s, i + 9, j - 1)] >>)
                 \o LexFrom(s, j + 3, <<>>)
    ELSE IF At(s, i, <<"<", "/">>)
    THEN LET j == Find(s, <<">">>, i + 2)
         IN IF j = 0 THEN <<>>
            ELSE CloseText(text) \o << [kind |-> "closetag", arg |-> <<>>] >>
                 \o LexFrom(s, j + 1, <<>>)
    ELSE IF s[i] = "<"
    THEN LET e == NameEnd(s, i + 1)
             t == LexAttributes(s, e, <<>>)
         IN IF t.next = 0 THEN <<>>
            ELSE CloseText(text)
                 \o << [kind |-> "opentag",
                        arg |-> [name |-> SubSeq(s, i + 1, e - 1), attributes |-> t.attributes]] >>
                 \o (IF t.selfClosing THEN << [kind |-> "closetag", arg |-> <<>>] >> ELSE <<>>)
                 \o LexFrom(s, t.next, <<>>)
    ELSE LexFrom(s, i + 1, Append(text, s[i]))

Lex(s) == LexFrom(s, 1, <<>>)

\* the callback for one event
Callback(h, d, e) ==
    IF e.kind = "opentag" THEN onopentag(h, d, e.arg)
    ELSE IF e.kind = "closetag" THEN onclosetag(h, d)
    ELSE IF e.kind = "text" THEN ontext(h, d, e.arg)
    ELSE IF e.kind = "cdata" THEN oncdata(h, d, e.arg)
    ELSE oncomment(h, d, e.arg)

RECURSIVE Feed(_, _, _)
\* parser.write: the callbacks in the order of the events, up to a throw
Feed(h, d, events) ==
    IF events = <<>> THEN Ret(h, d)
    ELSE LET r == Callback(h, d, Head(events))
         IN IF r.thrown # "" THEN r ELSE Feed(r.heap, r.delegates, Tail(events))

\* new XmlDocument(text) for a text that is not blank: [heap, delegates, thrown],
\* the Document being the first object of the heap
Parse(text) ==
    LET h1 == New(<<>>, [XmlElement([name |-> <<>>, attributes |-> <<>>], NoParser)
                             EXCEPT !.isDocument = TRUE])
        r == Feed(h1, <<1>>, Lex(Trim(text)))
    IN [r EXCEPT !.heap = DeleteParser(r.heap, 1)]

-----------------------------------------------------------------------------
\* Trees for the serializer: one build over events whose names are void and
\* non-void tag names and whose content holds the characters that are escaped;
\* the parser reports character data only inside the root element

MaxRenderEvents == 4

RenderTags == { [name |-> <<"b", "r">>, attributes |-> <<>>],
                [name |-> <<"b">>, attributes |-> << [k |-> <<"t">>, v |-> <<"<", "&">>] >>],
                [name |-> <<"a">>, attributes |-> << [k |-> <<"t">>, v |-> <<"'", "\"">>] >>] }

RenderTexts == { <<"<", "&", ">">>, <<" ", "'", "\"">> }

RenderCDatas == { <<" ", "<", "&">> }

RenderComments == { <<">">> }

RenderCanDeliver == phase = "feeding" /\ nEvents < MaxRenderEvents

RenderOpenTag(tag) ==
    /\ RenderCanDeliver
    /\ Deliver([kind |-> "opentag", arg |-> tag], onopentag(heap, delegates, tag))

RenderCloseTag ==
    /\ RenderCanDeliver
    /\ lexer.depth > 0
    /\ Deliver([kind |-> "closetag", arg |-> <<>>], onclosetag(heap, delegates))

RenderText(text) ==
    /\ RenderCanDeliver
    /\ lexer.depth > 0
    /\ Deliver([kind |-> "text", arg |-> text], ontext(heap, delegates, text))

RenderCData(cdata) ==
    /\ RenderCanDeliver
    /\ lexer.depth > 0
    /\ Deliver([kind |-> "cdata", arg |-> cdata], oncdata(heap, delegates, cdata))

RenderComment(comment) ==
    /\ RenderCanDeliver
    /\ Deliver([kind |-> "comment", arg |-> comment], oncomment(heap, delegates, comment))

RenderNext ==
    \/ TreeConstruct
    \/ \E tag \in RenderTags : RenderOpenTag(tag)
    \/ RenderCloseTag
    \/ \E text \in RenderTexts : RenderText(text)
    \/ \E cdata \in RenderCDatas : RenderCData(cdata)
    \/ \E comment \in RenderComments : RenderComment(comment)
    \/ WriteReturns

SpecRender == Init /\ [][RenderNext]_vars

\* The same build over fewer events, for the layout of the rendering

IndentTags == { [name |-> <<"b", "r">>, attributes |-> <<>>],
                [name |-> <<"b">>, attributes |-> << [k |-> <<"t">>, v |-> <<"<", "&">>] >>] }

IndentTexts == { <<" ", "'", "\"">> }

IndentNext ==
    \/ TreeConstruct
    \/ \E tag \in IndentTags : RenderOpenTag(tag)
    \/ RenderCloseTag
    \/ \E text \in IndentTexts : RenderText(text)
    \/ \E comment \in RenderComments : RenderComment(comment)
    \/ WriteReturns

SpecIndent == Init /\ [][IndentNext]_vars

\* The same build over content around the length at which trimmed truncates

RECURSIVE Repeat(_, _)
\* String.prototype.repeat for a one-character string
Repeat(c, n) == IF n = 0 THEN <<>> ELSE <<c>> \o Repeat(c, n - 1)

TrimTags == { [name |-> <<"a">>, attributes |-> <<>>] }

\* 23 characters that are 27 once escaped; 29 characters that start with whitespace
TrimTexts == { Repeat("a", 22) \o <<"&">>, <<" ", " ", " ">> \o Repeat("a", 26) }

\* 27 characters with whitespace at the 25th
TrimCDatas == { Repeat("a", 24) \o <<" ", " ", "b">> }

TrimComments == { Repeat("c", 26) }

TrimNext ==
    \/ TreeConstruct
    \/ \E tag \in TrimTags : RenderOpenTag(tag)
    \/ RenderCloseTag
    \/ \E text \in TrimTexts : RenderText(text)
    \/ \E cdata \in TrimCDatas : RenderCData(cdata)
    \/ \E comment \in TrimComments : RenderComment(comment)
    \/ WriteReturns

SpecTrim == Init /\ [][TrimNext]_vars

-----------------------------------------------------------------------------
\* Builds run one after another over the events that move the construction
\* stack; in SpecLoose the parser also reports a close-tag it has no open tag for

MaxStackEvents == 4

StackCanDeliver == phase = "feeding" /\ nEvents < MaxStackEvents

StackOpenTag(tag) ==
    /\ StackCanDeliver
    /\ Deliver([kind |-> "opentag", arg |-> tag], onopentag(heap, delegates, tag))

StackCloseTag ==
    /\ StackCanDeliver
    /\ lexer.depth > 0
    /\ Deliver([kind |-> "closetag", arg |-> <<>>], onclosetag(heap, delegates))

LooseCloseTag ==
    /\ StackCanDeliver
    /\ Deliver([kind |-> "closetag", arg |-> <<>>], onclosetag(heap, delegates))

StackText(text) ==
    /\ StackCanDeliver
    /\ Deliver([kind |-> "text", arg |-> text], ontext(heap, delegates, text))

StackError ==
    /\ StackCanDeliver
    /\ Deliver([kind |-> "error", arg |-> <<>>], onerror(heap, delegates))

StackNext ==
    \/ \E input \in Inputs : Construct(input)
    \/ \E tag \in Tags : StackOpenTag(tag)
    \/ StackCloseTag
    \/ \E text \in Texts : StackText(text)
    \/ StackError
    \/ WriteReturns

SpecStack == Init /\ [][StackNext]_vars

LooseNext ==
    \/ \E input \in Inputs : Construct(input)
    \/ \E tag \in Tags : StackOpenTag(tag)
    \/ LooseCloseTag
    \/ \E text \in Texts : StackText(text)
    \/ WriteReturns

SpecLoose == Init /\ [][LooseNext]_vars

-----------------------------------------------------------------------------
\* Vocabulary of the properties

Refs == 1..Len(heap)

Elements == { i \in Refs : heap[i].type = "element" }

\* a step in which the parser delivered one event
EventStep == nEvents' = nEvents + 1

\* a step in which a constructor call started
ConstructStep == nBuilds' = nBuilds + 1

IsBlank(s) == \A i \in 1..Len(s) : s[i] \in Whitespace

RECURSIVE DirectValue(_, _)
\* the content of the text and cdata nodes among kids, concatenated in order
DirectValue(h, kids) ==
    IF kids = <<>> THEN <<>>
    ELSE (IF h[Head(kids)].type \in {"text", "cdata"} THEN h[Head(kids)].content ELSE <<>>)
         \o DirectValue(h, Tail(kids))

\* the step appended exactly one new node of the given type to the old stack top
AppendedToTop(type) ==
    /\ delegates # <<>>
    /\ Len(heap') = Len(heap) + 1
    /\ heap'[Len(heap')].type = type
    /\ heap'[Head(delegates)].children = Append(heap[Head(delegates)].children, Len(heap'))
    /\ heap'[Head(delegates)].lastChild = Len(heap')

ValuesUnchanged == \A i \in Refs : heap'[i].val = heap[i].val

-----------------------------------------------------------------------------
C2_Value ==
    \A i \in Elements : heap[i].val = DirectValue(heap, heap[i].children)

\* an element with text of its own holds a child element that received text
C2_Witness ==
    \E p \in Elements : \E k \in 1..Len(heap[p].children) :
        LET c == heap[p].children[k] IN
        /\ heap[c].type = "element"
        /\ heap[c].val # <<>>
        /\ heap[p].val # <<>>
        /\ heap[p].val # heap[c].val

\* C3 (as claimed): every error event is raised to the caller of the constructor
\* and aborts the build.
C3_AsClaimed ==
    ev.kind = "error" => (phase = "done" /\ outcome = "raised")

\* C4 (as claimed): when the input ends while the stack does not hold exactly
\* the Document, the build fails with an error.
C4_AsClaimed ==
    (ev.kind = "end" /\ delegates # <<doc>>) => outcome = "raised"

\* C5: a constructor call whose input is empty or all whitespace raises before a
\* parser is created or written to and before delegates is assigned; every other
\* input is written, trimmed, to a new parser.
C5_EmptyInput ==
    [][ ConstructStep =>
          IF IsBlank(xml')
          THEN /\ outcome' = "raised"
               /\ phase' = "done"
               /\ lexer' = lexer
               /\ delegates' = delegates
          ELSE /\ outcome' = "none"
               /\ phase' = "feeding"
               /\ lexer'.created = lexer.created + 1
               /\ lexer'.written # <<>>
               /\ ~(Head(lexer'.written) \in Whitespace)
               /\ ~(lexer'.written[Len(lexer'.written)] \in Whitespace) ]_vars

\* a whitespace-only input was refused
C5_Witness ==
    /\ outcome = "raised"
    /\ err = "No XML to parse!"
    /\ xml # <<>>
    /\ IsBlank(xml)

\* C6 (as claimed): after an open-tag event the element it created, or the
\* Document it named, carries the parser's four counters of that moment.
C6_AsClaimed ==
    (phase = "feeding" /\ ev.kind = "opentag" /\ delegates # <<>>) =>
        LET e == heap[Head(delegates)] IN
        /\ e.line = lexer.line
        /\ e.column = lexer.column
        /\ e.position = lexer.position
        /\ e.startTagPosition = lexer.startTagPosition

\* C7 (as claimed): every comment event is accepted without raising, appends one
\* Comment node as last child of the stack top and changes no value.
C7_AsClaimed ==
    [][ (EventStep /\ ev'.kind = "comment") =>
          /\ outcome' # "raised"
          /\ AppendedToTop("comment")
          /\ ValuesUnchanged ]_vars

\* C7 (amended): every comment event is accepted without raising and changes no
\* value; delivered while the stack is non-empty it appends one Comment node as
\* last child of the stack top, delivered while the stack is empty (after the
\* root's close-tag event) it creates no node and changes nothing.
C7_Comment ==
    [][ (EventStep /\ ev'.kind = "comment") =>
          /\ outcome' # "raised"
          /\ phase' = "feeding"
          /\ ValuesUnchanged
          /\ delegates' = delegates
          /\ IF delegates = <<>>
             THEN heap' = heap
             ELSE /\ AppendedToTop("comment")
                  /\ heap'[Len(heap')].content = ev'.arg ]_vars

\* a comment event has just appended a Comment node to an element that has a value
C7_Witness ==
    /\ phase = "feeding"
    /\ ev.kind = "comment"
    /\ delegates # <<>>
    /\ heap[Head(delegates)].val # <<>>
    /\ heap[Head(delegates)].lastChild # Null
    /\ heap[heap[Head(delegates)].lastChild].type = "comment"

\* C8 (as claimed): a doctype event never raises, whatever the stack holds.
C8_AsClaimed ==
    ev.kind = "doctype" => outcome # "raised"

\* C9: once parser.write has been called and has returned or raised, the
\* Document holds no parser; no other node ever holds one.
C9_ParserReleased ==
    \A i \in Refs : heap[i].parser # Null => (i = doc /\ phase = "feeding")

\* the feed raised and the Document holds no parser
C9_Witness ==
    /\ phase = "done"
    /\ outcome = "raised"
    /\ err = "SaxError"
    /\ lexer.created >= 1
    /\ heap[doc].parser = Null

\* C10: for every Element, firstChild and lastChild are null exactly when
\* children is empty, and are otherwise its first and last entries.
C10_FirstLast ==
    \A i \in Elements :
        IF heap[i].children = <<>>
        THEN heap[i].firstChild = Null /\ heap[i].lastChild = Null
        ELSE /\ heap[i].firstChild = heap[i].children[1]
             /\ heap[i].lastChild = heap[i].children[Len(heap[i].children)]

\* an element with at least two children
C10_Witness ==
    \E i \in Elements :
        /\ Len(heap[i].children) >= 2
        /\ heap[i].firstChild # heap[i].lastChild

-----------------------------------------------------------------------------
\* Vocabulary of the query properties

QNames == { <<"a">>, <<"b">>, <<"c">> }

QAttrNames == { <<"t">>, <<"u">> }

QAttrValues == { Absent, Some(<<"v">>), Some(<<>>) }

\* path segments, and the paths of one or two segments
QSegments == { <<"a">>, <<"b">>, <<>> }

QPaths == { <<s>> : s \in QSegments } \cup { <<s, t>> : s \in QSegments, t \in QSegments }

RECURSIVE Join(_, _)
\* the segments written one after the other with sep between them
Join(segs, sep) ==
    IF Len(segs) = 1 THEN segs[1]
    ELSE segs[1] \o <<sep>> \o Join(Tail(segs), sep)

IsElementRef(h, c) == h[c].type = "element"

ElementChildren(h, self) ==
    { h[self].children[k] : k \in { j \in 1..Len(h[self].children) :
                                      IsElementRef(h, h[self].children[j]) } }

RECURSIVE Desc(_, _)
\* every node below e
Desc(h, e) ==
    LET kids == { h[e].children[k] : k \in 1..Len(h[e].children) }
    IN kids \cup UNION { Desc(h, c) : c \in kids }

\* x comes before y in document order, neither holding the other
Precedes(h, x, y) ==
    \E p \in 1..Len(h) : \E i, j \in 1..Len(h[p].children) :
        /\ i < j
        /\ (x = h[p].children[i] \/ x \in Desc(h, h[p].children[i]))
        /\ (y = h[p].children[j] \/ y \in Desc(h, h[p].children[j]))

RECURSIVE SumChildrenNamed(_, _, _)
SumChildrenNamed(h, es, name) ==
    IF es = {} THEN 0
    ELSE LET e == CHOOSE x \in es : TRUE
         IN Len(childrenNamed(h, e, name)) + SumChildrenNamed(h, es \ {e}, name)

RECURSIVE Walk(_, _, _)
\* childNamed applied to each segment in turn
Walk(h, e, segs) ==
    IF segs = <<>> THEN e
    ELSE LET c == childNamed(h, e, Head(segs))
         IN IF c = Undefined THEN Undefined ELSE Walk(h, c, Tail(segs))

\* C11: eachChild calls the iterator once for each Element child, in order,
\* with the child, its index in children and children itself, never for another
\* kind of child, and makes no call after one that returned false.
C11_EachChild ==
    \A self \in Elements : \A stops \in SUBSET ElementChildren(heap, self) :
        LET calls == eachChild(heap, self, stops)
            kids == heap[self].children
            visited == { k \in 1..Len(kids) :
                           /\ IsElementRef(heap, kids[k])
                           /\ \A j \in 1..(k - 1) : kids[j] \notin stops }
        IN /\ Len(calls) = Cardinality(visited)
           /\ \A c \in 1..Len(calls) :
                /\ calls[c].index + 1 \in visited
                /\ calls[c].child = kids[calls[c].index + 1]
                /\ calls[c].array = kids
                /\ c > 1 => calls[c - 1].index < calls[c].index

\* eachChild skipped a child that is no Element and a false stopped it short
C11_Witness ==
    \E self \in Elements : \E stops \in SUBSET ElementChildren(heap, self) :
        /\ Len(eachChild(heap, self, {})) >= 2
        /\ Len(eachChild(heap, self, stops)) < Len(eachChild(heap, self, {}))
        /\ eachChild(heap, self, {})[1].index > 0

\* C12: childrenNamed(n) is the subsequence of children, in order, of exactly
\* the Element children named n.
C12_ChildrenNamed ==
    \A self \in Elements : \A n \in QNames :
        LET Match(c) == IsElementRef(heap, c) /\ heap[c].name = n
        IN childrenNamed(heap, self, n) = SelectSeq(heap[self].children, Match)

\* two children match and another child is not an Element
C12_Witness ==
    \E self \in Elements : \E n \in QNames :
        /\ Len(childrenNamed(heap, self, n)) >= 2
        /\ \E k \in 1..Len(heap[self].children) : ~IsElementRef(heap, heap[self].children[k])

\* C13: childNamed(n) is the first entry of childrenNamed(n), undefined when
\* childrenNamed(n) is empty.
C13_ChildNamed ==
    \A self \in Elements : \A n \in QNames :
        childNamed(heap, self, n) =
            IF childrenNamed(heap, self, n) # <<>>
            THEN childrenNamed(heap, self, n)[1]
            ELSE Undefined

\* a name with two matching children, and a name with none
C13_Witness ==
    \E self \in Elements : \E n, m \in QNames :
        /\ Len(childrenNamed(heap, self, n)) >= 2
        /\ childNamed(heap, self, m) = Undefined
        /\ heap[self].children # <<>>

\* C14 (as claimed): without a value childWithAttribute returns the first Element
\* child whose attributes have the key, whatever its value, the empty string
\* included; with a value, the first whose attribute equals it; undefined if none.
C14_AsClaimed ==
    \A self \in Elements : \A n \in QAttrNames : \A value \in QAttrValues :
        LET kids == heap[self].children
            Match(c) == /\ IsElementRef(heap, c)
                        /\ IF value = Absent
                           THEN AttrGet(heap[c].attr, n) # Absent
                           ELSE AttrGet(heap[c].attr, n) = value
            hits == SelectSeq(kids, Match)
        IN childWithAttribute(heap, self, n, value) =
               IF hits # <<>> THEN hits[1] ELSE Undefined

\* C15: descendantsNamed(n) lists every Element below the receiver named n
\* exactly once, in pre-order; its length is the sum of the lengths of
\* childrenNamed(n) over the receiver and its descendant Elements.
C15_DescendantsNamed ==
    \A self \in Elements : \A n \in QNames :
        LET r == descendantsNamed(heap, self, n)
            below == { x \in Desc(heap, self) : IsElementRef(heap, x) }
        IN /\ \A i, j \in 1..Len(r) : i < j => r[i] # r[j]
           /\ { r[i] : i \in 1..Len(r) } = { x \in below : heap[x].name = n }
           /\ Len(r) = SumChildrenNamed(heap, below \cup {self}, n)
           /\ \A i, j \in 1..Len(r) :
                i < j => (r[j] \in Desc(heap, r[i]) \/ Precedes(heap, r[i], r[j]))

\* a match inside a match, followed by a match outside it
C15_Witness ==
    \E self \in Elements : \E n \in QNames :
        LET r == descendantsNamed(heap, self, n)
        IN /\ Len(r) >= 3
           /\ \E i \in 1..(Len(r) - 1) : r[i + 1] \in Desc(heap, r[i])
           /\ \E i \in 1..(Len(r) - 1) : r[i + 1] \notin Desc(heap, r[i])

\* C16: descendantWithPath(path) is childNamed applied to each dot-separated
\* segment in turn from the receiver, undefined as soon as a segment does not
\* resolve.
C16_DescendantWithPath ==
    \A self \in Elements : \A segs \in QPaths :
        descendantWithPath(heap, self, Join(segs, ".")) = Walk(heap, self, segs)

\* a path of two segments resolves, another fails at its second segment
C16_Witness ==
    \E self \in Elements : \E p, q \in QPaths :
        /\ Len(p) = 2 /\ Len(q) = 2
        /\ descendantWithPath(heap, self, Join(p, ".")) # Undefined
        /\ childNamed(heap, self, q[1]) # Undefined
        /\ descendantWithPath(heap, self, Join(q, ".")) = Undefined

\* C17: valueWithPath(path) resolves the part before '@' by descendantWithPath;
\* it is undefined when that fails, the element's val when no attribute name
\* follows, and the element's attribute of that name when one does.
C17_ValueWithPath ==
    \A self \in Elements : \A segs \in QPaths :
        LET d == descendantWithPath(heap, self, Join(segs, "."))
        IN /\ valueWithPath(heap, self, Join(segs, ".")) =
                  IF d = Undefined THEN Absent ELSE Some(heap[d].val)
           /\ \A a \in QAttrNames :
                  valueWithPath(heap, self, Join(segs, ".") \o <<"@">> \o a) =
                      IF d = Undefined THEN Absent ELSE AttrGet(heap[d].attr, a)

\* an attribute read through a path of two segments differs from the value read
C17_Witness ==
    \E self \in Elements : \E segs \in QPaths : \E a \in QAttrNames :
        LET p == Join(segs, ".") IN
        /\ Len(segs) = 2
        /\ valueWithPath(heap, self, p) # Absent
        /\ valueWithPath(heap, self, p) # Some(<<>>)
        /\ valueWithPath(heap, self, p \o <<"@">> \o a) # Absent
        /\ valueWithPath(heap, self, p \o <<"@">> \o a) # valueWithPath(heap, self, p)

-----------------------------------------------------------------------------
\* Vocabulary of the serializer properties

AllOptions == [compressed : BOOLEAN, trimmed : BOOLEAN, preserveWhitespace : BOOLEAN, html : BOOLEAN]

Indents == { <<>>, <<" ", " ">> }

\* the void tag names of HTML
VoidTagNames ==
    { <<"a", "r", "e", "a">>, <<"b", "a", "s", "e">>, <<"b", "r">>, <<"c", "o", "l">>,
      <<"e", "m", "b", "e", "d">>, <<"f", "r", "a", "m", "e">>, <<"h", "r">>,
      <<"i", "m", "g">>, <<"i", "n", "p", "u", "t">>, <<"k", "e", "y", "g", "e", "n">>,
      <<"l", "i", "n", "k">>, <<"m", "e", "n", "u", "i", "t", "e", "m">>,
      <<"m", "e", "t", "a">>, <<"p", "a", "r", "a", "m">>,
      <<"s", "o", "u", "r", "c", "e">>, <<"t", "r", "a", "c", "k">>, <<"w", "b", "r">> }

\* the rendering of e is the same with html set and unset
HtmlIndifferent(e) ==
    \A o \in { p \in AllOptions : p.html } :
        toString(heap, e, o) = toString(heap, e, [o EXCEPT !.html = FALSE])

\* an Element without children is rendered as claimed
EmptyElementRendering(e) ==
    \A o \in AllOptions : \A ind \in Indents :
        LET open == ind \o <<"<">> \o heap[e].name \o AttrText(heap[e].attr)
        IN toStringWithIndent(heap, e, ind, o) =
              IF ~o.html \/ heap[e].name \in VoidTagNames
              THEN open \o <<"/", ">">>
              ELSE open \o <<">", "<", "/">> \o heap[e].name \o <<">">>

\* e is an Element without children whose name is not a void tag name
ChildlessNonVoid(e) ==
    /\ IsElementRef(heap, e)
    /\ heap[e].children = <<>>
    /\ heap[e].name \notin VoidTagNames

\* C20 (as claimed): an Element without children renders as <name/> with html
\* unset, and with html set as <name/> for a void tag name and <name></name>
\* for any other; html changes the rendering of no element that has a child.
C20_AsClaimed ==
    \A e \in Elements :
        IF heap[e].children = <<>> THEN EmptyElementRendering(e) ELSE HtmlIndifferent(e)

\* C20 (amended): as claimed for an Element without children; html changes the
\* rendering of an element that has a child exactly when a childless Element
\* with a name that is not a void tag name lies below it.
C20_EmptyTag ==
    /\ \A i \in 1..Len(whiteList) : whiteList[i] \in VoidTagNames
    /\ Len(whiteList) = Cardinality(VoidTagNames)
    /\ \A e \in Elements :
        IF heap[e].children = <<>> THEN EmptyElementRendering(e)
        ELSE HtmlIndifferent(e) <=> ~(\E x \in Desc(heap, e) : ChildlessNonVoid(x))

\* a void and a non-void childless element below the same parent
C20_Witness ==
    \E p \in Elements : \E x, y \in ElementChildren(heap, p) :
        /\ heap[x].children = <<>> /\ heap[y].children = <<>>
        /\ heap[x].name \in VoidTagNames
        /\ heap[y].name \notin VoidTagNames
        /\ heap[y].attr # <<>>

\* the entity rendering replaces a character by
EntityFor(c) ==
    IF c = "&" THEN <<"&", "a", "m", "p", ";">>
    ELSE IF c = "<" THEN <<"&", "l", "t", ";">>
    ELSE IF c = ">" THEN <<"&", "g", "t", ";">>
    ELSE IF c = "'" THEN <<"&", "a", "p", "o", "s", ";">>
    ELSE IF c = "\"" THEN <<"&", "q", "u", "o", "t", ";">>
    ELSE <<c>>

RECURSIVE WithEntities(_, _)
\* s with every character of set replaced by its entity
WithEntities(s, set) ==
    IF s = <<>> THEN <<>>
    ELSE (IF Head(s) \in set THEN EntityFor(Head(s)) ELSE <<Head(s)>>)
         \o WithEntities(Tail(s), set)

Escaped == {"&", "<", ">", "'", "\""}

RECURSIVE AttributesWritten(_, _, _)
\* the attributes as written in a start tag, values between the quote q
AttributesWritten(attr, q, set) ==
    IF attr = <<>> THEN <<>>
    ELSE <<" ">> \o Head(attr).k \o <<"=", q>> \o WithEntities(Head(attr).v, set) \o <<q>>
         \o AttributesWritten(Tail(attr), q, set)

\* s starts with p
StartsWith(s, p) == Len(p) <= Len(s) /\ SubSeq(s, 1, Len(p)) = p

\* the build returned and every tag the parser opened was closed
WellFormedBuild ==
    /\ phase = "done" /\ outcome = "returned"
    /\ delegates = <<>> /\ lexer.depth = 0
    /\ heap[doc].name # <<>>

RECURSIVE Shape(_, _, _)
\* the tree below n: node kinds, element names, attributes and values, and
\* with full the content of the other nodes too
Shape(h, n, full) ==
    [ kind |-> h[n].type,
      name |-> h[n].name,
      attr |-> h[n].attr,
      val |-> h[n].val,
      content |-> IF full THEN h[n].content ELSE <<>>,
      kids |-> [i \in 1..Len(h[n].children) |-> Shape(h, h[n].children[i], full)] ]

\* the tree built from text is the tree of this build
BuiltFrom(text, full) ==
    LET r == Parse(text)
    IN r.thrown = "" /\ Shape(r.heap, 1, full) = Shape(heap, doc, full)

\* no element has two Text children in a row
NoAdjacentText ==
    \A e \in Elements : \A i \in 1..(Len(heap[e].children) - 1) :
        ~(heap[heap[e].children[i]].type = "text" /\ heap[heap[e].children[i + 1]].type = "text")

DefaultOptions ==
    [compressed |-> FALSE, trimmed |-> FALSE, preserveWhitespace |-> FALSE, html |-> FALSE]

\* C18 (as claimed): for a well-formed input, building the tree, rendering it
\* with toString and building again from the rendered text gives a tree with
\* the same node kinds, element names, attributes and element values.
C18_AsClaimed ==
    WellFormedBuild => BuiltFrom(toString(heap, doc, DefaultOptions), FALSE)

\* C18 (amended): the same holds when the tree has no two Text children in a
\* row and is rendered with the options compressed and preserveWhitespace.
C18_Compressed ==
    (WellFormedBuild /\ NoAdjacentText) =>
        \A o \in AllOptions :
            (o.compressed /\ o.preserveWhitespace /\ ~o.trimmed) =>
                BuiltFrom(toString(heap, doc, o), FALSE)

\* a round trip over an attribute, escaped text with whitespace and a second child
C18_Witness ==
    /\ WellFormedBuild /\ NoAdjacentText
    /\ heap[doc].attr # <<>>
    /\ \E t \in Refs : heap[t].type = "text" /\ Trim(heap[t].content) # heap[t].content
    /\ Len(heap[doc].children) >= 2
    /\ BuiltFrom(toString(heap, doc, [DefaultOptions EXCEPT !.compressed = TRUE,
                                                        !.preserveWhitespace = TRUE]), FALSE)

\* the original text of the tree below n: < > & written as entities, every
\* other character as itself, attribute values between style.quote, and an
\* element without children as a start-tag and end-tag pair when style.pair
\* and as an empty-element tag otherwise
Styles == [pair : BOOLEAN, quote : {"\"", "'"}]

Canonical == [pair |-> FALSE, quote |-> "\""]

RECURSIVE Source(_, _, _)
RECURSIVE SourceChildren(_, _, _, _)

SourceChildren(h, n, i, style) ==
    IF i > Len(h[n].children) THEN <<>>
    ELSE Source(h, h[n].children[i], style) \o SourceChildren(h, n, i + 1, style)

Source(h, n, style) ==
    IF h[n].type = "text" THEN WithEntities(h[n].content, {"&", "<", ">"})
    ELSE IF h[n].type = "cdata" THEN CDataOpen \o h[n].content \o CDataClose
    ELSE IF h[n].type = "comment" THEN CommentOpen \o h[n].content \o CommentClose
    ELSE LET open == <<"<">> \o h[n].name
                     \o AttributesWritten(h[n].attr, style.quote, {"&", "<", ">"})
         IN IF h[n].children = <<>>
            THEN (IF style.pair THEN open \o <<">", "<", "/">> \o h[n].name \o <<">">>
                  ELSE open \o <<"/", ">">>)
            ELSE open \o <<">">> \o SourceChildren(h, n, 1, style)
                 \o <<"<", "/">> \o h[n].name \o <<">">>

\* options under which formatText changes nothing
Verbatim == { o \in AllOptions : o.preserveWhitespace /\ ~o.trimmed }

\* Text content, Comment content and attribute values are rendered with each
\* of & < > ' " replaced by its entity
EntitiesWritten ==
    \A n \in Refs : \A o \in Verbatim :
        /\ heap[n].type = "text" => toString(heap, n, o) = WithEntities(heap[n].content, Escaped)
        /\ heap[n].type = "comment" =>
              toString(heap, n, o) = CommentOpen \o WithEntities(heap[n].content, Escaped) \o CommentClose
        /\ (heap[n].type = "element" /\ heap[n].name # <<>>) =>
              \E c \in {"/", ">"} :
                  StartsWith(toString(heap, n, o),
                             <<"<">> \o heap[n].name
                                \o AttributesWritten(heap[n].attr, "\"", Escaped) \o <<c>>)

\* CData content is rendered as it is under the options os
CDataWritten(os) ==
    \A n \in Refs : \A o \in os :
        heap[n].type = "cdata" => toString(heap, n, o) = CDataOpen \o heap[n].content \o CDataClose

\* no Text, CData or Comment content starts or ends with whitespace
NoSurroundingWhitespace ==
    \A n \in Refs : heap[n].type # "element" => Trim(heap[n].content) = heap[n].content

\* no character of set occurs in s
Without(s, set) == \A i \in 1..Len(s) : s[i] \notin set

\* neither ' nor " occurs in Text content or attribute values, and none of
\* & < > ' " in Comment content
NoQuotes ==
    \A n \in Refs :
        /\ heap[n].type = "text" => Without(heap[n].content, {"'", "\""})
        /\ heap[n].type = "comment" => Without(heap[n].content, Escaped)
        /\ \A i \in 1..Len(heap[n].attr) : Without(heap[n].attr[i].v, {"'", "\""})

CompressedOptions == [DefaultOptions EXCEPT !.compressed = TRUE]

\* rendering with compressed set reproduces the original text written in style
Reproduces(style) ==
    toString(heap, doc, CompressedOptions) = Source(heap, doc, style)

NamedElements == { e \in Elements : heap[e].name # <<>> }

\* the open tag of e up to its attributes, and its close tag
OpenTag(e) == <<"<">> \o heap[e].name \o AttrText(heap[e].attr)

CloseTag(e) == <<"<", "/">> \o heap[e].name \o <<">">>

\* e has exactly one child and it is not an Element
SingleNonElement(e) ==
    Len(heap[e].children) = 1 /\ heap[heap[e].children[1]].type # "element"

RECURSIVE Lines(_, _, _, _)
\* the children of e from the i-th on, each at the indentation ind and
\* followed by a linebreak
Lines(e, i, ind, o) ==
    IF i > Len(heap[e].children) THEN <<>>
    ELSE toStringWithIndent(heap, heap[e].children[i], ind, o) \o <<"\n">>
         \o Lines(e, i + 1, ind, o)

RECURSIVE Flat(_, _)
RECURSIVE FlatChildren(_, _, _)
\* the rendering of n without any linebreak or indentation
Flat(n, o) ==
    IF heap[n].type # "element" \/ heap[n].children = <<>> THEN toString(heap, n, o)
    ELSE OpenTag(n) \o <<">">> \o FlatChildren(n, 1, o) \o CloseTag(n)

FlatChildren(n, i, o) ==
    IF i > Len(heap[n].children) THEN <<>>
    ELSE Flat(heap[n].children[i], o) \o FlatChildren(n, i + 1, o)

\* e is rendered as its open tag, a linebreak, its children two spaces
\* deeper, each followed by a linebreak, and its close tag at its own indentation
Indented(e) ==
    \A o \in { p \in AllOptions : ~p.compressed } : \A ind \in Indents :
        toStringWithIndent(heap, e, ind, o) =
            ind \o OpenTag(e) \o <<">", "\n">> \o Lines(e, 1, ind \o <<" ", " ">>, o)
                \o ind \o CloseTag(e)

\* with compressed set nothing is inserted anywhere in the rendering of e
Compressed(e) ==
    \A o \in { p \in AllOptions : p.compressed } : toString(heap, e, o) = Flat(e, o)

\* the single non-Element child of e is rendered inline
Inline(e) ==
    \A o \in AllOptions : \A ind \in Indents :
        toStringWithIndent(heap, e, ind, o) =
            ind \o OpenTag(e) \o <<">">> \o toString(heap, heap[e].children[1], o) \o CloseTag(e)

\* C21 (as claimed): an Element whose children are not a single non-Element
\* node is rendered as open tag, linebreak, each child two spaces deeper and
\* followed by a linebreak, close tag at its own indentation; with compressed
\* nothing is inserted; a single non-Element child is rendered inline.
C21_AsClaimed ==
    \A e \in NamedElements :
        IF SingleNonElement(e) THEN Inline(e) ELSE Indented(e) /\ Compressed(e)

\* C21 (amended): the same for an Element that has children; an Element
\* without children has no separate open and close tag and no linebreak.
C21_Indented ==
    \A e \in NamedElements :
        /\ SingleNonElement(e) => Inline(e)
        /\ (heap[e].children # <<>> /\ ~SingleNonElement(e)) => Indented(e)
        /\ Compressed(e)
        /\ heap[e].children = <<>> =>
              \A o \in AllOptions : Without(toString(heap, e, o), {"\n"})

\* an element with several children, one of them an element with an inline child
C21_Witness ==
    \E e \in Elements : \E c \in ElementChildren(heap, e) :
        /\ Len(heap[e].children) >= 2
        /\ SingleNonElement(c)
        /\ Indented(e) /\ Inline(c)

-----------------------------------------------------------------------------
\* Vocabulary of the stack properties

\* C22 (as claimed): during a build the construction stack is not empty and
\* its bottom entry is the Document; a close-tag event whose target is the
\* Document removes nothing.
C22_AsClaimed ==
    phase = "feeding" => delegates # <<>> /\ delegates[Len(delegates)] = doc

\* C22 (amended): a build starts with the Document alone on the stack; the
\* close-tag event whose target is the Document removes it and the stack stays
\* empty until end of input; until then the stack is not empty, its bottom
\* entry is the Document and the Document is nowhere else on it.
C22_Stack ==
    [][ /\ (ConstructStep /\ phase' = "feeding") => delegates' = <<doc'>>
        /\ EventStep =>
              IF delegates = <<>> THEN delegates' = <<>>
              ELSE IF ev'.kind = "closetag" /\ Head(delegates) = doc THEN delegates' = <<>>
              ELSE /\ delegates' # <<>>
                   /\ delegates'[Len(delegates')] = doc
                   /\ \A k \in 1..(Len(delegates') - 1) : delegates'[k] # doc ]_vars

\* the close-tag of the root has just removed the Document after a nested
\* element was opened and closed
C22_Witness ==
    /\ phase = "feeding"
    /\ ev.kind = "closetag"
    /\ delegates = <<>>
    /\ lexer.depth = 0
    /\ ElementChildren(heap, doc) # {}

Rebase(h, base) ==
    [ i \in 1..(Len(h) - base) |->
        [ h[i + base] EXCEPT
            !.children = [k \in 1..Len(@) |-> @[k] - base],
            !.firstChild = IF @ = Null THEN Null ELSE @ - base,
            !.lastChild = IF @ = Null THEN Null ELSE @ - base ] ]

RebaseStack(d, base) == [k \in 1..Len(d) |-> d[k] - base]

\* the callback for an event of the stack specifications
StackCallback(h, d, e) ==
    IF e.kind = "error" THEN onerror(h, d) ELSE Callback(h, d, e)

\* C26: in builds run one after another, aborted ones included, a build starts
\* from a fresh Document alone on the stack, an event changes no object of an
\* earlier build, and every step of the build is the step it would take if it
\* were the only build.
C26_Isolated ==
    [][ /\ (ConstructStep /\ phase' = "feeding") =>
              /\ doc' = Len(heap') /\ doc' > Len(heap)
              /\ delegates' = <<doc'>>
              /\ heap'[doc'].children = <<>> /\ heap'[doc'].val = <<>>
              /\ heap'[doc'].name = <<>> /\ heap'[doc'].attr = <<>>
              /\ lexer'.depth = 0
              /\ \A i \in Refs : heap'[i] = heap[i]
        /\ EventStep =>
              LET base == doc - 1
                  r == StackCallback(Rebase(heap, base), RebaseStack(delegates, base), ev')
              IN /\ \A i \in Refs : i < doc => heap'[i] = heap[i]
                 /\ \A k \in 1..Len(delegates) : delegates[k] >= doc
                 /\ Rebase(heap', base) =
                        (IF r.thrown = "" THEN r.heap ELSE DeleteParser(r.heap, 1))
                 /\ RebaseStack(delegates', base) = r.delegates ]_vars

\* the second build has received a text event in an element of its own, after
\* a first build that created elements
C26_Witness ==
    /\ nBuilds = 2
    /\ phase = "feeding"
    /\ ev.kind = "text"
    /\ delegates # <<>>
    /\ heap[Head(delegates)].children # <<>>
    /\ \E e \in Elements : e < doc /\ ~heap[e].isDocument

-----------------------------------------------------------------------------
\* Vocabulary of the truncation properties

Contents == { n \in Refs : heap[n].type # "element" }

\* content as it is written for the node n: escaped unless n is a CData node
Written(n, s) == IF heap[n].type = "cdata" THEN s ELSE WithEntities(s, Escaped)

\* body between the delimiters of the node n
Wrapped(n, body) ==
    IF heap[n].type = "cdata" THEN CDataOpen \o body \o CDataClose
    ELSE IF heap[n].type = "comment" THEN CommentOpen \o body \o CommentClose
    ELSE body

\* C24 (as claimed): with trimmed set, content of at most 25 raw characters is
\* rendered in full and longer content as its first 25 raw characters followed
\* by one ellipsis character (content without whitespace, so that no
\* whitespace handling is involved).
C24_AsClaimed ==
    \A n \in Contents : \A o \in { p \in AllOptions : p.trimmed } :
        Without(heap[n].content, Whitespace) =>
            toString(heap, n, o) =
                Wrapped(n, IF Len(heap[n].content) <= TrimLength
                           THEN Written(n, heap[n].content)
                           ELSE Written(n, SubSeq(heap[n].content, 1, TrimLength)) \o Ellipsis)

\* C25 (as claimed): with preserveWhitespace set the content is emitted with
\* its leading and trailing whitespace when trimmed is unset, and as its first
\* 25 characters, whitespace included, followed by the ellipsis when trimmed is
\* set and the content is longer; with preserveWhitespace unset leading and
\* trailing whitespace is stripped (content without escaped characters, so
\* that raw and escaped length agree).
C25_AsClaimed ==
    \A n \in Contents : \A o \in { p \in AllOptions : p.preserveWhitespace \/ ~p.trimmed } :
        Without(heap[n].content, Escaped) =>
            toString(heap, n, o) =
                Wrapped(n,
                    IF ~o.preserveWhitespace THEN Trim(heap[n].content)
                    ELSE IF ~o.trimmed \/ Len(heap[n].content) <= TrimLength
                    THEN heap[n].content
                    ELSE SubSeq(heap[n].content, 1, TrimLength) \o Ellipsis)


====
